---- MODULE Spec2Model ----
(***************************************************************************)
(* A model of freedict-editor's XML/XPath utility layer (src/xml.c):       *)
(*   - my_xmlXPathEvalExpression / find_node_set and the shared parser     *)
(*     context slot guarded by find_nodeset_pcontext_mutex,                *)
(*   - contains_unbalanced_braces (the fd:unbalanced-braces predicate),    *)
(*   - has_only_text_children_and_allowed_attrs,                           *)
(*   - find_single_node / unlink_leaf_node_with_attr,                      *)
(*   - entry_orths_to_string,                                              *)
(* and of its label/value lists (src/values.c):                            *)
(*   - value2index / index2value,                                          *)
(*   - Values2GSList.                                                      *)
(* Each component has its own variables, initial condition and             *)
(* specification; the variables of the other components stay at rest.      *)
(***************************************************************************)
EXTENDS Integers, Sequences, FiniteSets, TLC

VARIABLES
  \* ---- evaluator thread (find_node_set -> my_xmlXPathEvalExpression)
  epc,        \* position of the evaluating thread
  ncalls,     \* number of find_node_set calls started so far
  useLocal,   \* TRUE: find_node_set got pctxt == NULL and uses &pctxt2
  ctxtOk,     \* CHECK_CONTEXT passes (ctxt, ctxt->doc, ctxt->doc->children)
  evalKind,   \* what xmlXPathEvalExpr does with the expression
  pcontext,   \* the caller-supplied slot (shared with the monitor)
  pctxt2,     \* find_node_set's local slot (uninitialised automatic variable)
  mutex,      \* holder of find_nodeset_pcontext_mutex
  sess,       \* state of every parser context ever allocated
  newctx,     \* the parser context xmlXPathNewParserContext is building
  res,        \* my_xmlXPathEvalExpression's return value
  fnsRet,     \* find_node_set's return value
  \* ---- monitoring thread
  obs,        \* last unsynchronised read of the slot
  mpc,        \* position of the monitor's locked read
  mobs,       \* last read of the slot made while holding the mutex
  \* ---- contains_unbalanced_braces
  bpc, bnull, bstr, cpos, curch, stack, bres,
  \* ---- has_only_text_children_and_allowed_attrs
  lpc, lnode, lattrs, lcontents, lres,
  \* ---- unlink_leaf_node_with_attr
  xpc, doc0, parent, xkind, matches, xattrs, xcontents, can0, can, xfns,
  xchosen, xvalid, xret,
  \* ---- entry_orths_to_string
  jpc, jcontents, jlen, je, jout, jret, jpast, jwrite,
  \* ---- value2index / index2value
  ipc,        \* position in value2index / index2value
  inull,      \* TRUE: the values argument is the null pointer
  iarr,       \* the entries of the Values array before its terminator
  iquery,     \* value2index's value argument
  idirect,    \* an index a caller passes to index2value directly
  ifed,       \* TRUE: index2value was fed value2index's result
  iv2i,       \* value2index's return value
  iindex,     \* index2value's index argument
  ii,         \* the loop counter i
  ipos,       \* how far the values pointer has been advanced
  iret,       \* index2value's return value
  \* ---- Values2GSList
  gpc,        \* position in Values2GSList
  gnull,      \* TRUE: the values argument is the null pointer
  garr,       \* the entries of the Values array before its terminator
  gk,         \* how far the values pointer has been advanced (and i)
  gsize,      \* the size g_malloc was asked for, for the current element
  gdata,      \* the bytes written for the current element, by index
  glist,      \* the list g, first element first
  gret        \* the list returned

evalVars == <<epc, ncalls, useLocal, ctxtOk, evalKind, pcontext, pctxt2,
              mutex, sess, newctx, res, fnsRet, obs, mpc, mobs>>
braceVars == <<bpc, bnull, bstr, cpos, curch, stack, bres>>
leafVars == <<lpc, lnode, lattrs, lcontents, lres>>
extractVars == <<xpc, doc0, parent, xkind, matches, xattrs, xcontents, can0,
                 can, xfns, xchosen, xvalid, xret>>
joinVars == <<jpc, jcontents, jlen, je, jout, jret, jpast, jwrite>>
indexVars == <<ipc, inull, iarr, iquery, idirect, ifed, iv2i, iindex, ii,
               ipos, iret>>
listVars == <<gpc, gnull, garr, gk, gsize, gdata, glist, gret>>
valuesVars == <<indexVars, listVars>>
vars == <<evalVars, braceVars, leafVars, extractVars, joinVars, valuesVars>>

otherThanEval ==
  <<braceVars, leafVars, extractVars, joinVars, valuesVars>>
otherThanBraces ==
  <<evalVars, leafVars, extractVars, joinVars, valuesVars>>
otherThanLeaf ==
  <<evalVars, braceVars, extractVars, joinVars, valuesVars>>
otherThanExtract ==
  <<evalVars, braceVars, leafVars, joinVars, valuesVars>>
otherThanJoin ==
  <<evalVars, braceVars, leafVars, extractVars, valuesVars>>
otherThanIndex ==
  <<evalVars, braceVars, leafVars, extractVars, joinVars, listVars>>
otherThanList ==
  <<evalVars, braceVars, leafVars, extractVars, joinVars, indexVars>>

NULL == "NULL"

(***************************************************************************)
(* Bounds of the model.                                                    *)
(***************************************************************************)
MaxEvals == 2

-----------------------------------------------------------------------------
(***************************************************************************)
(* Session-cancellable evaluator.                                          *)
(***************************************************************************)

\* What the evaluation of the expression can come to (xmlXPathEvalExpr and
\* the valuePop that follows it):
\*   malformed   *(*pctxt)->cur != 0: syntax error or unconsumed input
\*   nothing     valuePop finds the value stack empty
\*   no_nodeset  an object whose nodesetval is NULL (boolean, number, string)
\*   zero_nodes  a node-set object with nodeNr == 0
\*   nodes       a node-set object with at least one node
EvalKinds == {"malformed", "nothing", "no_nodeset", "zero_nodes", "nodes"}

\* Parser context pointers: the null pointer, a pointer to the context of
\* the i-th call (i in SessionIds), or a wild pointer.
NullCtx == 0
WildCtx == -1

\* An uninitialised automatic pointer holds whatever the stack held.
Indeterminate == {NullCtx, WildCtx}

SessionIds == 1..MaxEvals

\* The object my_xmlXPathEvalExpression returns for an evaluation kind.
EvalResult(kind) ==
  CASE kind = "malformed"  -> NULL
    [] kind = "nothing"    -> NULL
    [] kind = "no_nodeset" -> "obj_no_nodeset"
    [] kind = "zero_nodes" -> "obj_zero_nodes"
    [] kind = "nodes"      -> "obj_nodes"

\* What find_node_set hands to its caller for the object it got.
FindNodeSetResult(r) ==
  IF r = NULL THEN NULL
  ELSE IF r = "obj_no_nodeset" THEN NULL
  ELSE IF r = "obj_zero_nodes" THEN NULL
  ELSE "nodeset"

\* The slot my_xmlXPathEvalExpression works on: *pctxt.
Slot == IF useLocal THEN pctxt2 ELSE pcontext

InitEval ==
  /\ epc = "idle"
  /\ ncalls = 0
  /\ useLocal = FALSE
  /\ ctxtOk = TRUE
  /\ evalKind = "nodes"
  /\ pcontext = NullCtx
  /\ pctxt2 = NullCtx
  /\ mutex = "free"
  /\ sess = [i \in SessionIds |-> "unallocated"]
  /\ newctx = 0
  /\ res = NULL
  /\ fnsRet = NULL
  /\ obs = [val |-> NullCtx, state |-> "none"]
  /\ mpc = "idle"
  /\ mobs = [val |-> NullCtx, state |-> "none"]

\* find_node_set is entered: the context is set up, pctxt2 comes into
\* being with an indeterminate value, and my_xmlXPathEvalExpression is
\* called with either the caller's slot or &pctxt2.
FindNodeSetCall ==
  /\ epc = "idle"
  /\ ncalls < MaxEvals
  /\ ncalls' = ncalls + 1
  /\ \E l \in BOOLEAN, ok \in BOOLEAN, k \in EvalKinds, g \in Indeterminate :
       /\ useLocal' = l
       /\ ctxtOk' = ok
       /\ evalKind' = k
       /\ pctxt2' = g
  /\ epc' = "check"
  /\ res' = NULL
  /\ fnsRet' = NULL
  /\ UNCHANGED <<pcontext, mutex, sess, newctx, obs, mpc, mobs>>
  /\ UNCHANGED otherThanEval

\* CHECK_CONTEXT(ctxt, *pctxt): an invalid context returns NULL at once,
\* leaving *pctxt as it was.
CheckContext ==
  /\ epc = "check"
  /\ IF ctxtOk THEN epc' = "lock1" /\ res' = res
               ELSE epc' = "eval_returned" /\ res' = NULL
  /\ UNCHANGED <<ncalls, useLocal, ctxtOk, evalKind, pcontext, pctxt2, mutex,
                 sess, newctx, fnsRet, obs, mpc, mobs>>
  /\ UNCHANGED otherThanEval

Lock1 ==
  /\ epc = "lock1"
  /\ mutex = "free"
  /\ mutex' = "evaluator"
  /\ epc' = "alloc"
  /\ UNCHANGED <<ncalls, useLocal, ctxtOk, evalKind, pcontext, pctxt2, sess,
                 newctx, res, fnsRet, obs, mpc, mobs>>
  /\ UNCHANGED otherThanEval

\* xmlXPathNewParserContext allocates the context ...
NewParserContextBegin ==
  /\ epc = "alloc"
  /\ newctx' = ncalls
  /\ sess' = [sess EXCEPT ![ncalls] = "partial"]
  /\ epc' = "constructing"
  /\ UNCHANGED <<ncalls, useLocal, ctxtOk, evalKind, pcontext, pctxt2, mutex,
                 res, fnsRet, obs, mpc, mobs>>
  /\ UNCHANGED otherThanEval

\* ... fills it in and returns it.
NewParserContextEnd ==
  /\ epc = "constructing"
  /\ sess' = [sess EXCEPT ![newctx] = "live"]
  /\ epc' = "publish"
  /\ UNCHANGED <<ncalls, useLocal, ctxtOk, evalKind, pcontext, pctxt2, mutex,
                 newctx, res, fnsRet, obs, mpc, mobs>>
  /\ UNCHANGED otherThanEval

\* *pctxt = <the new context>
Publish ==
  /\ epc = "publish"
  /\ IF useLocal THEN pctxt2' = newctx /\ pcontext' = pcontext
                 ELSE pcontext' = newctx /\ pctxt2' = pctxt2
  /\ epc' = "unlock1"
  /\ UNCHANGED <<ncalls, useLocal, ctxtOk, evalKind, mutex, sess, newctx,
                 res, fnsRet, obs, mpc, mobs>>
  /\ UNCHANGED otherThanEval

Unlock1 ==
  /\ epc = "unlock1"
  /\ mutex' = "free"
  /\ epc' = "eval"
  /\ UNCHANGED <<ncalls, useLocal, ctxtOk, evalKind, pcontext, pctxt2, sess,
                 newctx, res, fnsRet, obs, mpc, mobs>>
  /\ UNCHANGED otherThanEval

\* xmlXPathEvalExpr, the pop of the result and the draining of the stack.
EvalExpr ==
  /\ epc = "eval"
  /\ res' = EvalResult(evalKind)
  /\ epc' = "lock2"
  /\ UNCHANGED <<ncalls, useLocal, ctxtOk, evalKind, pcontext, pctxt2, mutex,
                 sess, newctx, fnsRet, obs, mpc, mobs>>
  /\ UNCHANGED otherThanEval

\* Variant: the evaluator goes on to free the context without the mutex.
Lock2NoMutex ==
  /\ epc = "lock2"
  /\ epc' = "free"
  /\ UNCHANGED <<ncalls, useLocal, ctxtOk, evalKind, pcontext, pctxt2, mutex,
                 sess, newctx, res, fnsRet, obs, mpc, mobs>>
  /\ UNCHANGED otherThanEval

Lock2 ==
  /\ epc = "lock2"
  /\ mutex = "free"
  /\ mutex' = "evaluator"
  /\ epc' = "free"
  /\ UNCHANGED <<ncalls, useLocal, ctxtOk, evalKind, pcontext, pctxt2, sess,
                 newctx, res, fnsRet, obs, mpc, mobs>>
  /\ UNCHANGED otherThanEval

\* xmlXPathFreeParserContext(*pctxt)
FreeParserContext ==
  /\ epc = "free"
  /\ sess' = [sess EXCEPT ![Slot] = "freed"]
  /\ epc' = "clear"
  /\ UNCHANGED <<ncalls, useLocal, ctxtOk, evalKind, pcontext, pctxt2, mutex,
                 newctx, res, fnsRet, obs, mpc, mobs>>
  /\ UNCHANGED otherThanEval

\* *pctxt = NULL
ClearSlot ==
  /\ epc = "clear"
  /\ IF useLocal THEN pctxt2' = NullCtx /\ pcontext' = pcontext
                 ELSE pcontext' = NullCtx /\ pctxt2' = pctxt2
  /\ epc' = "unlock2"
  /\ UNCHANGED <<ncalls, useLocal, ctxtOk, evalKind, mutex, sess, newctx,
                 res, fnsRet, obs, mpc, mobs>>
  /\ UNCHANGED otherThanEval

Unlock2 ==
  /\ epc = "unlock2"
  /\ mutex' = "free"
  /\ epc' = "eval_returned"
  /\ UNCHANGED <<ncalls, useLocal, ctxtOk, evalKind, pcontext, pctxt2, sess,
                 newctx, res, fnsRet, obs, mpc, mobs>>
  /\ UNCHANGED otherThanEval

\* find_node_set looks at the object and returns.
FindNodeSetReturn ==
  /\ epc = "eval_returned"
  /\ fnsRet' = FindNodeSetResult(res)
  /\ epc' = "fns_returned"
  /\ UNCHANGED <<ncalls, useLocal, ctxtOk, evalKind, pcontext, pctxt2, mutex,
                 sess, newctx, res, obs, mpc, mobs>>
  /\ UNCHANGED otherThanEval

\* The caller goes on; pctxt2 is gone with find_node_set's frame.
CallerContinues ==
  /\ epc = "fns_returned"
  /\ epc' = "idle"
  /\ pctxt2' = NullCtx
  /\ UNCHANGED <<ncalls, useLocal, ctxtOk, evalKind, pcontext, mutex, sess,
                 newctx, res, fnsRet, obs, mpc, mobs>>
  /\ UNCHANGED otherThanEval

\* What a read of the shared slot sees: the pointer, and the state of the
\* object it points to at that moment.
ReadSlot ==
  [val |-> pcontext,
   state |-> IF pcontext \in SessionIds THEN sess[pcontext] ELSE "none"]

\* The monitor reads the slot without taking the mutex.
MonitorReadUnsync ==
  /\ obs' = ReadSlot
  /\ obs' # obs
  /\ UNCHANGED <<epc, ncalls, useLocal, ctxtOk, evalKind, pcontext, pctxt2,
                 mutex, sess, newctx, res, fnsRet, mpc, mobs>>
  /\ UNCHANGED otherThanEval

\* The monitor reads the slot between g_mutex_lock and g_mutex_unlock.
MonitorLock ==
  /\ mpc = "idle"
  /\ mutex = "free"
  /\ mutex' = "monitor"
  /\ mpc' = "locked"
  /\ UNCHANGED <<epc, ncalls, useLocal, ctxtOk, evalKind, pcontext, pctxt2,
                 sess, newctx, res, fnsRet, obs, mobs>>
  /\ UNCHANGED otherThanEval

MonitorReadLocked ==
  /\ mpc = "locked"
  /\ mobs' = ReadSlot
  /\ mpc' = "read"
  /\ UNCHANGED <<epc, ncalls, useLocal, ctxtOk, evalKind, pcontext, pctxt2,
                 mutex, sess, newctx, res, fnsRet, obs>>
  /\ UNCHANGED otherThanEval

MonitorUnlock ==
  /\ mpc = "read"
  /\ mutex' = "free"
  /\ mpc' = "idle"
  /\ UNCHANGED <<epc, ncalls, useLocal, ctxtOk, evalKind, pcontext, pctxt2,
                 sess, newctx, res, fnsRet, obs, mobs>>
  /\ UNCHANGED otherThanEval

-----------------------------------------------------------------------------
(***************************************************************************)
(* contains_unbalanced_braces.  The string is a run of bytes closed by a   *)
(* terminator NUL; what lies behind the terminator is not the string's.    *)
(***************************************************************************)

\* char stack[100]
StackSize == 100

\* Longest string of the exhaustive inputs, deepest nesting past the stack's
\* capacity, and number of bytes behind the terminator the model follows.
MaxLen == 4
MaxOver == 1
MaxTail == 2

NUL == "NUL"
Openers == {"(", "[", "{"}
Closers == {")", "]", "}"}
BraceAlphabet == Openers \cup Closers \cup {"a"}

\* Variant: ']' is checked against '('.
OpenerOfRoundOnly(ch) ==
  CASE ch = ")" -> "("
    [] ch = "]" -> "("
    [] ch = "}" -> "{"

\* The opener a closer asks for.
OpenerOf(ch) ==
  CASE ch = ")" -> "("
    [] ch = "]" -> "["
    [] ch = "}" -> "{"

\* k openers of cycling kinds followed by their closers, innermost first.
OpenerAt(i) == IF i % 3 = 1 THEN "(" ELSE IF i % 3 = 2 THEN "[" ELSE "{"
CloserAt(i) == IF i % 3 = 1 THEN ")" ELSE IF i % 3 = 2 THEN "]" ELSE "}"
Nest(k) == [i \in 1..(2 * k) |-> IF i <= k THEN OpenerAt(i)
                                           ELSE CloserAt(2 * k + 1 - i)]

\* "(a[b]{c)}"
MismatchExample == <<"(", "a", "[", "b", "]", "{", "c", ")", "}">>

ShortStrings == UNION {[1..n -> BraceAlphabet] : n \in 0..MaxLen}
DeepStrings == {Nest(k) : k \in (StackSize - 1)..(StackSize + MaxOver)}
                 \cup {Nest(StackSize) \o <<")">>}
BraceStrings == ShortStrings \cup DeepStrings \cup {MismatchExample}

\* int stackend = sizeof(stack); the stack grows downwards from there.
StackEnd == StackSize - Len(stack)

InitBraces ==
  /\ bpc = "start"
  /\ bnull \in BOOLEAN
  /\ bstr \in (IF bnull THEN {<<>>} ELSE BraceStrings)
  /\ cpos = 0
  /\ curch = NUL
  /\ stack = <<>>
  /\ bres = FALSE

\* The bytes a read at offset p (from the start of the string) can give:
\* the string's byte, its terminator, or, behind the terminator, whatever
\* the memory holds there (followed for MaxTail bytes).
BytesAt(p) ==
  IF p < Len(bstr) THEN {bstr[p + 1]}
  ELSE IF p = Len(bstr) THEN {NUL}
  ELSE IF p <= Len(bstr) + MaxTail THEN BraceAlphabet \cup {NUL}
  ELSE {NUL}

\* if(!c) return FALSE; otherwise the do-while is entered with *c read.
BracesEnter ==
  /\ bpc = "start"
  /\ IF bnull
       THEN bpc' = "done" /\ bres' = FALSE /\ curch' = curch
       ELSE bpc' = "scan" /\ bres' = bres /\ curch' \in BytesAt(0)
  /\ UNCHANGED <<bnull, bstr, cpos, stack>>
  /\ UNCHANGED otherThanBraces

\* c++; while(*c)
Advance ==
  /\ cpos' = cpos + 1
  /\ \E b \in BytesAt(cpos + 1) :
       /\ curch' = b
       /\ bpc' = IF b = NUL THEN "end" ELSE "scan"
  /\ UNCHANGED <<bnull, bstr, bres>>

ReturnUnbalanced ==
  /\ bpc' = "done"
  /\ bres' = TRUE
  /\ UNCHANGED <<bnull, bstr, cpos, curch>>

\* case '(' '[' '{' with room on the stack: stack[--stackend] = b
CubPush ==
  /\ bpc = "scan"
  /\ curch \in Openers
  /\ StackEnd # 0
  /\ stack' = Append(stack, curch)
  /\ Advance
  /\ UNCHANGED otherThanBraces

\* cub_push with stackend == 0: "Too many open braces", return TRUE
CubPushFull ==
  /\ bpc = "scan"
  /\ curch \in Openers
  /\ StackEnd = 0
  /\ stack' = stack
  /\ ReturnUnbalanced
  /\ UNCHANGED otherThanBraces

\* case ')' ']' '}' and cub_pop() gives the matching opener
CubPopMatch ==
  /\ bpc = "scan"
  /\ curch \in Closers
  /\ StackEnd < StackSize
  /\ stack[Len(stack)] = OpenerOf(curch)
  /\ stack' = SubSeq(stack, 1, Len(stack) - 1)
  /\ Advance
  /\ UNCHANGED otherThanBraces

\* cub_pop() gives 'E' (stack empty) or another opener: return TRUE
CubPopMismatch ==
  /\ bpc = "scan"
  /\ curch \in Closers
  /\ \/ StackEnd >= StackSize /\ stack' = stack
     \/ /\ StackEnd < StackSize
        /\ stack[Len(stack)] # OpenerOf(curch)
        /\ stack' = SubSeq(stack, 1, Len(stack) - 1)
  /\ ReturnUnbalanced
  /\ UNCHANGED otherThanBraces

\* all other characters are skipped (the terminator of "" among them)
CubSkip ==
  /\ bpc = "scan"
  /\ curch \notin Openers \cup Closers
  /\ stack' = stack
  /\ Advance
  /\ UNCHANGED otherThanBraces

\* braces left open?  if(cub_pop()!='E') return TRUE; return FALSE;
BracesEnd ==
  /\ bpc = "end"
  /\ bpc' = "done"
  /\ bres' = (StackEnd < StackSize)
  /\ UNCHANGED <<bnull, bstr, cpos, curch, stack>>
  /\ UNCHANGED otherThanBraces

-----------------------------------------------------------------------------
(***************************************************************************)
(* has_only_text_children_and_allowed_attrs.  A node is a record of its    *)
(* type, its attributes (name and value, in order) and the kinds of its    *)
(* children.  attrs and attr_contents are pointers to arrays: either may   *)
(* be the null pointer, and an entry of attr_contents may be NULL.         *)
(***************************************************************************)

MaxProps == 2
MaxChildren == 2
MaxAllowed == 2

AttrNames == {"type", "id"}
AttrValues == {"n", "v"}
ChildKinds == {"text", "element", "comment"}

Prop(nm, v) == [name |-> nm, value |-> v]

\* Attribute lists: names are unique within a node.
PropLists(max) ==
  {p \in UNION {[1..k -> [name : AttrNames, value : AttrValues]] : k \in 0..max} :
     \A i, j \in 1..Len(p) : i # j => p[i].name # p[j].name}

NullNode == [null |-> TRUE, type |-> "none", props |-> <<>>, children |-> <<>>]
TextNode == [null |-> FALSE, type |-> "text", props |-> <<>>, children |-> <<>>]
ElementNode(p, c) == [null |-> FALSE, type |-> "element", props |-> p, children |-> c]

LeafNodes ==
  {NullNode, TextNode} \cup
  {ElementNode(p, c) : p \in PropLists(MaxProps),
                       c \in UNION {[1..k -> ChildKinds] : k \in 0..MaxChildren}}

NoArray == [null |-> TRUE, items |-> <<>>]
Array(items) == [null |-> FALSE, items |-> items]

\* The (attrs, attr_contents) pairs: attr_contents, when given, runs
\* parallel to attrs.
Whitelists(max) ==
  {<<NoArray, NoArray>>} \cup
  UNION {UNION {{<<Array(nms), NoArray>>} \cup
                {<<Array(nms), Array(vals)>> : vals \in [1..k -> AttrValues \cup {NULL}]}
                : nms \in [1..k -> AttrNames]}
         : k \in 0..max}

\* The inner while(*attr) loop from entry i on, for one attribute of the
\* node: the set of ways it can end.  "allowed" and "denied" are the
\* values of the flag after the loop.  Two reads have no defined outcome:
\* the argument *attr_content of g_debug when attr_contents is the null
\* pointer, and strcmp(attr_value, *attr_content) when the entry is NULL;
\* such a read can stop the program ("crash") or go on either way.
RECURSIVE AllowedFrom(_, _, _, _)
AllowedFrom(prop, attrs, contents, i) ==
  IF i > Len(attrs.items) THEN {"denied"}
  ELSE
    LET rest == AllowedFrom(prop, attrs, contents, i + 1)
        debugRead == IF contents.null THEN {"crash"} ELSE {}
        test ==
          IF attrs.items[i] # prop.name THEN rest
          ELSE IF contents.null THEN {"allowed"}
          ELSE IF contents.items[i] = NULL THEN {"crash", "allowed"} \cup rest
          ELSE IF contents.items[i] = prop.value THEN {"allowed"}
          ELSE rest
    IN debugRead \cup test

\* The outer while(nattrs) loop from the k-th attribute on.
RECURSIVE AttrsFrom(_, _, _, _)
AttrsFrom(props, attrs, contents, k) ==
  IF k > Len(props) THEN {"pass"}
  ELSE
    LET a == AllowedFrom(props[k], attrs, contents, 1)
    IN (IF "crash" \in a THEN {"crash"} ELSE {})
       \cup (IF "denied" \in a THEN {"FALSE"} ELSE {})
       \cup (IF "allowed" \in a THEN AttrsFrom(props, attrs, contents, k + 1) ELSE {})

\* The final loop over n->children: xmlNodeIsText for every child.
OnlyTextChildren(n) ==
  IF \A i \in 1..Len(n.children) : n.children[i] = "text" THEN "TRUE" ELSE "FALSE"

\* The results the function can give: "TRUE", "FALSE", or "crash".
HasOnlyTextChildrenAndAllowedAttrs(n, attrs, contents) ==
  IF n.null THEN {"FALSE"}
  ELSE
    LET a == IF n.type = "element" /\ n.props # <<>>
               THEN (IF attrs.null THEN {"FALSE"}
                     ELSE AttrsFrom(n.props, attrs, contents, 1))
               ELSE {"pass"}
    IN (a \ {"pass"}) \cup (IF "pass" \in a THEN {OnlyTextChildren(n)} ELSE {})

InitLeaf ==
  /\ lpc = "start"
  /\ lnode \in LeafNodes
  /\ \E w \in Whitelists(MaxAllowed) : lattrs = w[1] /\ lcontents = w[2]
  /\ lres = "none"

LeafCheck ==
  /\ lpc = "start"
  /\ lres' \in HasOnlyTextChildrenAndAllowedAttrs(lnode, lattrs, lcontents)
  /\ lpc' = "done"
  /\ UNCHANGED <<lnode, lattrs, lcontents>>
  /\ UNCHANGED otherThanLeaf

-----------------------------------------------------------------------------
(***************************************************************************)
(* find_single_node and unlink_leaf_node_with_attr.  A document is a tree  *)
(* of nodes numbered 1..n in document order; par[i] is the parent of node  *)
(* i, DocNode standing for the document itself and NoParent for a node     *)
(* that is linked nowhere.                                                 *)
(***************************************************************************)

MaxNodes == 3

DocNode == 0
NoParent == -1
NoNode == 0

XProps == {<<>>, <<Prop("type", "n")>>, <<Prop("type", "v")>>}

\* i and its ancestors up to the root element.
RECURSIVE AncestorsOrSelf(_, _)
AncestorsOrSelf(par, i) ==
  IF i = DocNode THEN {} ELSE {i} \cup AncestorsOrSelf(par, par[i])

\* Numbering in document order: node 1 is the root element, and every
\* later node hangs below the node before it or below one of its ancestors.
WellFormed(n, par, type) ==
  /\ par[1] = DocNode
  /\ type[1] = "element"
  /\ \A i \in 2..n : /\ par[i] \in 1..(i - 1)
                     /\ type[par[i]] = "element"
                     /\ par[i] \in AncestorsOrSelf(par, i - 1)

\* Trees of n nodes numbered in document order, as parent functions.
Shapes(n) ==
  {q \in [1..n -> 0..(n - 1)] :
     /\ q[1] = DocNode
     /\ \A i \in 2..n : q[i] \in 1..(i - 1)
     /\ \A i \in 2..n : q[i] \in AncestorsOrSelf(q, i - 1)}

Documents ==
  UNION {
    UNION {
      {[n |-> n, par |-> par, type |-> type, props |-> props] :
         type \in {t \in [1..n -> {"element", "text"}] : WellFormed(n, par, t)},
         props \in [1..n -> XProps]}
      : par \in Shapes(n)}
    : n \in 1..MaxNodes}

\* Text nodes carry no attributes.
ValidDocuments ==
  {d \in Documents : \A i \in 1..d.n : d.type[i] = "text" => d.props[i] = <<>>}

\* Children of node i in the tree par, in document order.
ChildrenOf(n, par, i) == {j \in 1..n : par[j] = i}

RECURSIVE SetToSeq(_)
SetToSeq(S) ==
  IF S = {} THEN <<>>
  ELSE LET m == CHOOSE x \in S : \A y \in S : x <= y
       IN <<m>> \o SetToSeq(S \ {m})

\* The node as has_only_text_children_and_allowed_attrs sees it.
NodeRecord(d, par, i) ==
  [null |-> FALSE, type |-> d.type[i], props |-> d.props[i],
   children |-> [k \in 1..Cardinality(ChildrenOf(d.n, par, i)) |->
                   d.type[SetToSeq(ChildrenOf(d.n, par, i))[k]]]]

XWhitelists ==
  {<<NoArray, NoArray>>,
   <<Array(<<"type">>), NoArray>>,
   <<Array(<<"type">>), Array(<<"n">>)>>,
   <<Array(<<"type">>), Array(<<NULL>>)>>}

\* The node-set of the evaluation: nodeTab holds the matches in document
\* order.
NodeTab == SetToSeq(matches)

InitExtract ==
  /\ xpc = "start"
  /\ doc0 \in ValidDocuments
  /\ parent = doc0.par
  /\ xkind \in EvalKinds
  /\ matches \in (IF xkind = "nodes" THEN (SUBSET (1..doc0.n)) \ {{}} ELSE {{}})
  /\ \E w \in XWhitelists : xattrs = w[1] /\ xcontents = w[2]
  /\ can0 \in BOOLEAN
  /\ can = can0
  /\ xfns = "none"
  /\ xchosen = NoNode
  /\ xvalid = "none"
  /\ xret = NoNode

\* find_single_node: NULL when find_node_set gives NULL, else *(nodes->nodeTab).
FindSingleNode == 
  IF FindNodeSetResult(EvalResult(xkind)) = NULL THEN NoNode ELSE NodeTab[1]

\* Variant: the unlinking takes the following siblings of n along.
UnlinkNodeAndFollowing(par, n) ==
  [i \in DOMAIN par |-> IF i = n \/ (i > n /\ par[i] = par[n]) THEN NoParent
                        ELSE par[i]]

\* xmlUnlinkNode(n): n leaves its parent's child list; n's own subtree
\* stays below n.
UnlinkNode(par, n) == [par EXCEPT ![n] = NoParent]

\* find_single_node gave NULL: return NULL.
ExtractNotFound ==
  /\ xpc = "start"
  /\ FindSingleNode = NoNode
  /\ xfns' = FindNodeSetResult(EvalResult(xkind))
  /\ xchosen' = NoNode
  /\ xret' = NoNode
  /\ xpc' = "done"
  /\ UNCHANGED <<doc0, parent, xkind, matches, xattrs, xcontents, can0, can,
                 xvalid>>
  /\ UNCHANGED otherThanExtract

\* Variant: the rejection leaves *can as it was.
ExtractRejectedFlagKept ==
  /\ xpc = "start"
  /\ FindSingleNode # NoNode
  /\ "FALSE" \in HasOnlyTextChildrenAndAllowedAttrs(
                   NodeRecord(doc0, parent, FindSingleNode), xattrs, xcontents)
  /\ xfns' = FindNodeSetResult(EvalResult(xkind))
  /\ xchosen' = FindSingleNode
  /\ xvalid' = "FALSE"
  /\ xret' = NoNode
  /\ xpc' = "done"
  /\ UNCHANGED <<doc0, parent, xkind, matches, xattrs, xcontents, can0, can>>
  /\ UNCHANGED otherThanExtract

\* The node is no leaf of the wanted shape: *can = FALSE; return NULL.
ExtractRejected ==
  /\ xpc = "start"
  /\ FindSingleNode # NoNode
  /\ "FALSE" \in HasOnlyTextChildrenAndAllowedAttrs(
                   NodeRecord(doc0, parent, FindSingleNode), xattrs, xcontents)
  /\ xfns' = FindNodeSetResult(EvalResult(xkind))
  /\ xchosen' = FindSingleNode
  /\ xvalid' = "FALSE"
  /\ can' = FALSE
  /\ xret' = NoNode
  /\ xpc' = "done"
  /\ UNCHANGED <<doc0, parent, xkind, matches, xattrs, xcontents, can0>>
  /\ UNCHANGED otherThanExtract

\* The node is a leaf: xmlUnlinkNode(n); return n.
ExtractUnlink ==
  /\ xpc = "start"
  /\ FindSingleNode # NoNode
  /\ "TRUE" \in HasOnlyTextChildrenAndAllowedAttrs(
                  NodeRecord(doc0, parent, FindSingleNode), xattrs, xcontents)
  /\ xfns' = FindNodeSetResult(EvalResult(xkind))
  /\ xchosen' = FindSingleNode
  /\ xvalid' = "TRUE"
  /\ parent' = UnlinkNode(parent, FindSingleNode)
  /\ xret' = FindSingleNode
  /\ xpc' = "done"
  /\ UNCHANGED <<doc0, xkind, matches, xattrs, xcontents, can0, can>>
  /\ UNCHANGED otherThanExtract

\* The check of the node stops the program.
ExtractCrash ==
  /\ xpc = "start"
  /\ FindSingleNode # NoNode
  /\ "crash" \in HasOnlyTextChildrenAndAllowedAttrs(
                   NodeRecord(doc0, parent, FindSingleNode), xattrs, xcontents)
  /\ xfns' = FindNodeSetResult(EvalResult(xkind))
  /\ xchosen' = FindSingleNode
  /\ xvalid' = "crash"
  /\ xpc' = "crashed"
  /\ UNCHANGED <<doc0, parent, xkind, matches, xattrs, xcontents, can0, can,
                 xret>>
  /\ UNCHANGED otherThanExtract

-----------------------------------------------------------------------------
(***************************************************************************)
(* entry_orths_to_string.  Strings are sequences of bytes without their    *)
(* terminator.  A byte is an ASCII character, the lead byte of a two-byte  *)
(* ("L2") or three-byte ("L3") UTF-8 character, or a continuation byte     *)
(* ("C").  xmlNodeGetContent gives a string, possibly empty, or NULL.      *)
(***************************************************************************)

MaxOrths == 3
MaxBytes == 26
MaxBehind == 1

NullContent == [null |-> TRUE, bytes |-> <<>>]
Str(b) == [null |-> FALSE, bytes |-> b]

JoinContents ==
  {NullContent, Str(<<>>), Str(<<"a">>), Str(<<"c">>), Str(<<"L2", "C">>),
   Str(<<"L3", "C", "C">>), Str(<<"a", "L3", "C", "C">>)}

\* ", "
Separator == <<",", " ">>
\* "(null)"
NullText == <<"(", "n", "u", "l", "l", ")">>
\* "No nodes (form/orth)!"
NoNodesText ==
  <<"N", "o", " ", "n", "o", "d", "e", "s", " ", "(", "f", "o", "r", "m", "/",
    "o", "r", "t", "h", ")", "!">>

MinOf(a, b) == IF a <= b THEN a ELSE b

\* g_strlcpy(dest, src, size), size > 0: at most size - 1 bytes.
StrLCpy(src, size) == SubSeq(src, 1, MinOf(Len(src), size - 1))

\* g_strlcat(dest, src, size): dest grows to at most size - 1 bytes.
StrLCat(dest, src, size) ==
  IF Len(dest) >= size THEN dest
  ELSE dest \o SubSeq(src, 1, MinOf(Len(src), size - 1 - Len(dest)))

\* g_utf8_next_char: the step the lead byte announces.
Utf8Skip(b) == IF b = "L2" THEN 2 ELSE IF b = "L3" THEN 3 ELSE 1

\* Variant: the separator goes before every node but the first (i > 0).
RECURSIVE OrthsFromByIndex(_, _, _, _)
OrthsFromByIndex(e, contents, i, len) ==
  IF i > Len(contents) THEN e
  ELSE
    LET e1 == IF i > 1 THEN StrLCat(e, Separator, len) ELSE e
        e2 == IF contents[i].null THEN StrLCat(e1, NullText, len)
              ELSE StrLCat(e1, contents[i].bytes, len)
    IN OrthsFromByIndex(e2, contents, i + 1, len)

\* The for loop over set->nodeTab from node i on, e being the buffer so far.
RECURSIVE OrthsFrom(_, _, _, _)
OrthsFrom(e, contents, i, len) ==
  IF i > Len(contents) THEN e
  ELSE
    LET e1 == IF Len(e) # 0 THEN StrLCat(e, Separator, len) ELSE e
        e2 == IF contents[i].null THEN StrLCat(e1, NullText, len)
              ELSE StrLCat(e1, contents[i].bytes, len)
    IN OrthsFrom(e2, contents, i + 1, len)

\* g_utf8_strncpy's scan, while (n && *s) { s = g_utf8_next_char(s); n--; }:
\* the offsets p of s it can end at.  A step from a lead byte whose
\* character was cut carries s over the terminator of e; what is read
\* there is not e's, and is followed for MaxBehind characters.
RECURSIVE Utf8Scan(_, _, _, _)
Utf8Scan(e, p, n, g) ==
  IF n = 0 \/ p = Len(e) THEN {p}
  ELSE IF p < Len(e) THEN Utf8Scan(e, p + Utf8Skip(e[p + 1]), n - 1, g)
  ELSE {p} \cup (IF g = 0 THEN {}
                 ELSE UNION {Utf8Scan(e, p + k, n - 1, g - 1) : k \in 1..3})

InitJoin ==
  /\ jpc = "start"
  /\ jcontents \in UNION {[1..k -> JoinContents] : k \in 0..MaxOrths}
  /\ jlen \in 0..MaxBytes
  /\ je = <<>>
  /\ jout = <<>>
  /\ jret = FALSE
  /\ jpast = FALSE
  /\ jwrite = 0

\* g_return_val_if_fail(len>0, FALSE)
JoinBadLength ==
  /\ jpc = "start"
  /\ ~(jlen > 0)
  /\ jpc' = "failed"
  /\ jret' = FALSE
  /\ UNCHANGED <<jcontents, jlen, je, jout, jpast, jwrite>>
  /\ UNCHANGED otherThanJoin

\* No orth: the message is copied into s.
JoinNoNodes ==
  /\ jpc = "start"
  /\ jlen > 0
  /\ Len(jcontents) = 0
  /\ jout' = StrLCpy(NoNodesText, jlen)
  /\ jwrite' = Len(jout')
  /\ jret' = FALSE
  /\ jpc' = "done"
  /\ UNCHANGED <<jcontents, jlen, je, jpast>>
  /\ UNCHANGED otherThanJoin

\* The orths are joined in e, and g_utf8_strncpy(s, e, len/2) copies the
\* scanned bytes of e into s and writes the terminator s[p].
JoinOrths ==
  /\ jpc = "start"
  /\ jlen > 0
  /\ Len(jcontents) # 0
  /\ je' = OrthsFrom(<<>>, jcontents, 1, jlen)
  /\ \E p \in Utf8Scan(je', 0, jlen \div 2, MaxBehind) :
       /\ jout' = SubSeq(je', 1, MinOf(p, Len(je')))
       /\ jwrite' = p
       /\ jpast' = (p > Len(je'))
  /\ jret' = TRUE
  /\ jpc' = "done"
  /\ UNCHANGED <<jcontents, jlen>>
  /\ UNCHANGED otherThanJoin

-----------------------------------------------------------------------------
(***************************************************************************)
(* Label/value lists (values.c).  A Values array is a sequence of          *)
(* {label, value} entries closed by an entry whose pointers are NULL; the  *)
(* model keeps the entries before the terminator, and position n of an     *)
(* array of n entries is the terminator.                                   *)
(***************************************************************************)

MaxEntries == 2
MaxStr == 2
MaxIndex == 3

\* Strings of up to MaxStr bytes.
ValueStrings == UNION {[1..k -> {"a"}] : k \in 0..MaxStr}

Entry(l, v) == [label |-> l, value |-> v]

\* The arrays value2index and index2value are called with: the labels play
\* no part in them.
IndexArrays ==
  UNION {[1..n -> {Entry(<<"a">>, v) : v \in ValueStrings}] : n \in 0..MaxEntries}

\* The result of index2value: a value of the array, or NULL.
NullValue == [null |-> TRUE, bytes |-> <<>>]

\* values->value after the pointer has been advanced pos times: NULL at
\* the terminator.
ValueAt(arr, pos) == IF pos < Len(arr) THEN Str(arr[pos + 1].value) ELSE NullValue

\* value2index's "unknown value".
Unknown == -1

InitIndex ==
  /\ ipc = "start"
  /\ inull \in BOOLEAN
  /\ iarr \in (IF inull THEN {<<>>} ELSE IndexArrays)
  /\ iquery \in {NullValue} \cup {Str(v) : v \in ValueStrings}
  /\ idirect \in (-MaxIndex)..MaxIndex
  /\ ifed = FALSE
  /\ iv2i = 0
  /\ iindex = 0
  /\ ii = 0
  /\ ipos = 0
  /\ iret = NullValue

\* value2index: g_return_val_if_fail(values, -1).
V2iNoArray ==
  /\ ipc = "start" /\ inull
  /\ iv2i' = Unknown
  /\ ipc' = "v2i_done"
  /\ UNCHANGED <<inull, iarr, iquery, idirect, ifed, iindex, ii, ipos, iret>>
  /\ UNCHANGED otherThanIndex

\* value2index: if(!value) return 0.
V2iNoValue ==
  /\ ipc = "start" /\ ~inull /\ iquery.null
  /\ iv2i' = 0
  /\ ipc' = "v2i_done"
  /\ UNCHANGED <<inull, iarr, iquery, idirect, ifed, iindex, ii, ipos, iret>>
  /\ UNCHANGED otherThanIndex

\* value2index: int i = 0, then the loop.
V2iEnter ==
  /\ ipc = "start" /\ ~inull /\ ~iquery.null
  /\ ii' = 0 /\ ipos' = 0
  /\ ipc' = "v2i_loop"
  /\ UNCHANGED <<inull, iarr, iquery, idirect, ifed, iv2i, iindex, iret>>
  /\ UNCHANGED otherThanIndex

\* value2index: strcmp finds the value at the current entry: return i.
V2iFound ==
  /\ ipc = "v2i_loop"
  /\ ~ValueAt(iarr, ipos).null /\ ValueAt(iarr, ipos) = iquery
  /\ iv2i' = ii
  /\ ipc' = "v2i_done"
  /\ UNCHANGED <<inull, iarr, iquery, idirect, ifed, iindex, ii, ipos, iret>>
  /\ UNCHANGED otherThanIndex

\* value2index: another value at the current entry: values++, i++.
V2iStep ==
  /\ ipc = "v2i_loop"
  /\ ~ValueAt(iarr, ipos).null /\ ValueAt(iarr, ipos) # iquery
  /\ ii' = ii + 1 /\ ipos' = ipos + 1
  /\ UNCHANGED <<ipc, inull, iarr, iquery, idirect, ifed, iv2i, iindex, iret>>
  /\ UNCHANGED otherThanIndex

\* value2index: the terminator is reached: return -1.
V2iUnknown ==
  /\ ipc = "v2i_loop"
  /\ ValueAt(iarr, ipos).null
  /\ iv2i' = Unknown
  /\ ipc' = "v2i_done"
  /\ UNCHANGED <<inull, iarr, iquery, idirect, ifed, iindex, ii, ipos, iret>>
  /\ UNCHANGED otherThanIndex

\* index2value is entered with index as given: g_return_val_if_fail(values,
\* NULL), then int i = 0.
Index2ValueEnter(index) ==
  /\ iindex' = index
  /\ ii' = 0 /\ ipos' = 0
  /\ IF inull THEN ipc' = "done" /\ iret' = NullValue
              ELSE ipc' = "i2v_loop" /\ iret' = iret
  /\ UNCHANGED <<inull, iarr, iquery, idirect, iv2i>>
  /\ UNCHANGED otherThanIndex

\* A caller passes value2index's result on to index2value.
I2vCallWithResult ==
  /\ ipc = "v2i_done"
  /\ ifed' = TRUE
  /\ Index2ValueEnter(iv2i)

\* A caller passes an index of its own.
I2vCallDirect ==
  /\ ipc = "start"
  /\ ifed' = FALSE
  /\ Index2ValueEnter(idirect)

\* The loop condition of index2value: values && i<index && values->value.
I2vLoopCondition == ii < iindex /\ ~ValueAt(iarr, ipos).null

\* index2value: values++, i++.
I2vStep ==
  /\ ipc = "i2v_loop"
  /\ I2vLoopCondition
  /\ ii' = ii + 1 /\ ipos' = ipos + 1
  /\ UNCHANGED <<ipc, inull, iarr, iquery, idirect, ifed, iv2i, iindex, iret>>
  /\ UNCHANGED otherThanIndex

\* index2value: after the loop, if(values && values->value) return
\* values->value; return NULL.
I2vReturn ==
  /\ ipc = "i2v_loop"
  /\ ~I2vLoopCondition
  /\ iret' = ValueAt(iarr, ipos)
  /\ ipc' = "done"
  /\ UNCHANGED <<inull, iarr, iquery, idirect, ifed, iv2i, iindex, ii, ipos>>
  /\ UNCHANGED otherThanIndex

-----------------------------------------------------------------------------
(***************************************************************************)
(* Values2GSList: every entry becomes one newly allocated string           *)
(* label TAB value, prepended to the list.  The bytes written for the      *)
(* element being built are kept by index, so that a write can be compared  *)
(* with the size that was allocated.  g_slist_prepend does not return      *)
(* NULL (glib ends the program when it cannot allocate), so the branch     *)
(* if(!g) is never taken.                                                  *)
(***************************************************************************)

TAB == "TAB"

\* The arrays Values2GSList is called with.
ListArrays ==
  UNION {[1..n -> {Entry(l, v) : l \in ValueStrings, v \in ValueStrings}]
         : n \in 0..MaxEntries}

\* The bytes of src as written from index at on.
Shifted(at, src) == [i \in at..(at + Len(src) - 1) |-> src[i - at + 1]]

\* The element being built has been written beyond what was allocated.
Overflown == \E w \in DOMAIN gdata : w >= gsize

InitList ==
  /\ gpc = "loop"
  /\ gnull \in BOOLEAN
  /\ garr \in (IF gnull THEN {<<>>} ELSE ListArrays)
  /\ gk = 0
  /\ gsize = 0
  /\ gdata = <<>>
  /\ glist = <<>>
  /\ gret = <<>>

\* The loop condition: values && values->label && values->value.
VglLoopCondition == ~gnull /\ gk < Len(garr)

\* lenlabel = strlen(values->label);
\* data = g_malloc(lenlabel+strlen(values->value)+1).
VglAlloc ==
  /\ gpc = "loop" /\ VglLoopCondition
  /\ gsize' = Len(garr[gk + 1].label) + Len(garr[gk + 1].value) + 1
  /\ gdata' = <<>>
  /\ gpc' = "copy_label"
  /\ UNCHANGED <<gnull, garr, gk, glist, gret>>
  /\ UNCHANGED otherThanList

\* strncpy(data, values->label, lenlabel): the bytes of the label, without
\* a terminator.
VglCopyLabel ==
  /\ gpc = "copy_label"
  /\ gdata' = Shifted(0, garr[gk + 1].label)
  /\ gpc' = "tab"
  /\ UNCHANGED <<gnull, garr, gk, gsize, glist, gret>>
  /\ UNCHANGED otherThanList

\* data1 = data + lenlabel; *data1 = '\t'.
VglTab ==
  /\ gpc = "tab"
  /\ gdata' = Shifted(Len(garr[gk + 1].label), <<TAB>>) @@ gdata
  /\ gpc' = "copy_value"
  /\ UNCHANGED <<gnull, garr, gk, gsize, glist, gret>>
  /\ UNCHANGED otherThanList

\* strcpy(data1+1, values->value): the bytes of the value and the
\* terminator.  A write beyond the allocation has no defined outcome: the
\* program can go on, or stop.
VglCopyValue ==
  /\ gpc = "copy_value"
  /\ gdata' = Shifted(Len(garr[gk + 1].label) + 1,
                      garr[gk + 1].value \o <<NUL>>) @@ gdata
  /\ UNCHANGED <<gnull, garr, gk, gsize, glist, gret>>
  /\ gpc' \in (IF Overflown' THEN {"prepend", "crashed"} ELSE {"prepend"})
  /\ UNCHANGED otherThanList

\* g = g_slist_prepend(g_old, data); values++; i++.
VglPrepend ==
  /\ gpc = "prepend"
  /\ glist' = <<garr[gk + 1].label \o <<TAB>> \o garr[gk + 1].value>> \o glist
  /\ gk' = gk + 1
  /\ gpc' = "loop"
  /\ UNCHANGED <<gnull, garr, gsize, gdata, gret>>
  /\ UNCHANGED otherThanList

\* The loop ends at the terminator (or at once for a null array): return g.
VglReturn ==
  /\ gpc = "loop" /\ ~VglLoopCondition
  /\ gret' = glist
  /\ gpc' = "done"
  /\ UNCHANGED <<gnull, garr, gk, gsize, gdata, glist>>
  /\ UNCHANGED otherThanList

-----------------------------------------------------------------------------
(***************************************************************************)
(* Specifications: one per component, the other components at rest.        *)
(***************************************************************************)

RestEval ==
  /\ epc = "rest" /\ ncalls = 0 /\ useLocal = FALSE /\ ctxtOk = TRUE
  /\ evalKind = "nodes" /\ pcontext = NullCtx /\ pctxt2 = NullCtx
  /\ mutex = "free" /\ sess = <<>> /\ newctx = 0 /\ res = NULL
  /\ fnsRet = NULL /\ obs = [val |-> NullCtx, state |-> "none"]
  /\ mpc = "rest" /\ mobs = [val |-> NullCtx, state |-> "none"]

RestBraces ==
  /\ bpc = "rest" /\ bnull = TRUE /\ bstr = <<>> /\ cpos = 0 /\ curch = NUL
  /\ stack = <<>> /\ bres = FALSE

RestLeaf ==
  /\ lpc = "rest" /\ lnode = NullNode /\ lattrs = NoArray
  /\ lcontents = NoArray /\ lres = "none"

RestExtract ==
  /\ xpc = "rest" /\ doc0 = <<>> /\ parent = <<>> /\ xkind = "nodes"
  /\ matches = {} /\ xattrs = NoArray /\ xcontents = NoArray
  /\ can0 = FALSE /\ can = FALSE /\ xfns = "none" /\ xchosen = NoNode
  /\ xvalid = "none" /\ xret = NoNode

RestJoin ==
  /\ jpc = "rest" /\ jcontents = <<>> /\ jlen = 0 /\ je = <<>> /\ jout = <<>>
  /\ jret = FALSE /\ jpast = FALSE /\ jwrite = 0

RestIndex ==
  /\ ipc = "rest" /\ inull = TRUE /\ iarr = <<>> /\ iquery = NullValue
  /\ idirect = 0 /\ ifed = FALSE /\ iv2i = 0 /\ iindex = 0 /\ ii = 0
  /\ ipos = 0 /\ iret = NullValue

RestList ==
  /\ gpc = "rest" /\ gnull = TRUE /\ garr = <<>> /\ gk = 0 /\ gsize = 0
  /\ gdata = <<>> /\ glist = <<>> /\ gret = <<>>

RestValues == RestIndex /\ RestList

InitSpecEval ==
  InitEval /\ RestBraces /\ RestLeaf /\ RestExtract /\ RestJoin
  /\ RestValues

InitSpecBraces ==
  RestEval /\ InitBraces /\ RestLeaf /\ RestExtract /\ RestJoin
  /\ RestValues

InitSpecLeaf ==
  RestEval /\ RestBraces /\ InitLeaf /\ RestExtract /\ RestJoin
  /\ RestValues

InitSpecExtract ==
  RestEval /\ RestBraces /\ RestLeaf /\ InitExtract /\ RestJoin
  /\ RestValues

InitSpecJoin ==
  RestEval /\ RestBraces /\ RestLeaf /\ RestExtract /\ InitJoin
  /\ RestValues

InitSpecIndex ==
  RestEval /\ RestBraces /\ RestLeaf /\ RestExtract /\ RestJoin
  /\ InitIndex /\ RestList

InitSpecList ==
  RestEval /\ RestBraces /\ RestLeaf /\ RestExtract /\ RestJoin
  /\ RestIndex /\ InitList

NextEval ==
  \/ FindNodeSetCall
  \/ CheckContext
  \/ Lock1
  \/ NewParserContextBegin
  \/ NewParserContextEnd
  \/ Publish
  \/ Unlock1
  \/ EvalExpr
  \/ Lock2
  \/ FreeParserContext
  \/ ClearSlot
  \/ Unlock2
  \/ FindNodeSetReturn
  \/ CallerContinues
  \/ MonitorReadUnsync
  \/ MonitorLock
  \/ MonitorReadLocked
  \/ MonitorUnlock

NextBraces ==
  \/ BracesEnter
  \/ CubPush
  \/ CubPushFull
  \/ CubPopMatch
  \/ CubPopMismatch
  \/ CubSkip
  \/ BracesEnd

NextLeaf == LeafCheck

NextExtract ==
  \/ ExtractNotFound
  \/ ExtractRejected
  \/ ExtractUnlink
  \/ ExtractCrash

NextJoin ==
  \/ JoinBadLength
  \/ JoinNoNodes
  \/ JoinOrths

NextIndex ==
  \/ V2iNoArray
  \/ V2iNoValue
  \/ V2iEnter
  \/ V2iFound
  \/ V2iStep
  \/ V2iUnknown
  \/ I2vCallWithResult
  \/ I2vCallDirect
  \/ I2vStep
  \/ I2vReturn

NextList ==
  \/ VglAlloc
  \/ VglCopyLabel
  \/ VglTab
  \/ VglCopyValue
  \/ VglPrepend
  \/ VglReturn

SpecEval == InitSpecEval /\ [][NextEval]_vars

SpecBraces == InitSpecBraces /\ [][NextBraces]_vars

SpecLeaf == InitSpecLeaf /\ [][NextLeaf]_vars

SpecExtract == InitSpecExtract /\ [][NextExtract]_vars

SpecJoin == InitSpecJoin /\ [][NextJoin]_vars

SpecIndex == InitSpecIndex /\ [][NextIndex]_vars

SpecList == InitSpecList /\ [][NextList]_vars

-----------------------------------------------------------------------------
(***************************************************************************)
(* Properties of the evaluator and its slot (SpecEval).                    *)
(***************************************************************************)

\* The positions between the publish step and the clear step.
Published == {"unlock1", "eval", "lock2", "free", "clear"}

\* C1: whenever my_xmlXPathEvalExpression has returned, on any exit path
\* (a result, a malformed expression, or the early return for an invalid
\* context), the slot *pctxt holds null; the slot holds a session only
\* between the publish step and the clear step, and both steps are taken
\* while holding the mutex.
C1_SlotNullOnEveryExit ==
  /\ epc \in {"eval_returned", "fns_returned"} => Slot = NullCtx
  /\ Slot \in SessionIds => epc \in Published
  /\ epc \in {"publish", "clear"} => mutex = "evaluator"

\* C2 (as claimed): every value a monitor reads from the slot without
\* taking the mutex is null or a reference to a fully constructed session
\* that has not been freed.
C2_UnsyncReadNeverDangling ==
  obs.val = NullCtx \/ (obs.val \in SessionIds /\ obs.state = "live")

\* C2 (amended): every value a monitor reads from the slot while holding
\* the mutex is null or a reference to a fully constructed session that has
\* not been freed; a read without the mutex never gives a partly
\* constructed session.
C2_LockedReadNeverDangling ==
  /\ mobs.val = NullCtx \/ (mobs.val \in SessionIds /\ mobs.state = "live")
  /\ obs.state # "partial"

\* C2 witness: the monitor, holding the mutex, has read a live session
\* while the evaluation was in progress.
C2_LockedReadSawSession ==
  mpc = "read" /\ mobs.val \in SessionIds /\ mobs.state = "live" /\ epc = "eval"

-----------------------------------------------------------------------------
(***************************************************************************)
(* Properties of contains_unbalanced_braces (SpecBraces).                  *)
(***************************************************************************)

BracketPairs == {<<"(", ")">>, <<"[", "]">>, <<"{", "}">>}

OnlyBrackets(s) == SelectSeq(s, LAMBDA ch : ch \in Openers \cup Closers)

\* Heights(b)[k]: the brackets open after the first k brackets of b.
Heights(b) ==
  [k \in 0..Len(b) |->
     Cardinality({j \in 1..k : b[j] \in Openers})
       - Cardinality({j \in 1..k : b[j] \in Closers})]

\* The bracket string b is well nested: no closer comes without an open
\* bracket, nothing stays open, and every closer is of the kind of the
\* bracket it closes (the last one opened at its level).
WellNested(b) ==
  \E h \in {Heights(b)} :
     /\ h[Len(b)] = 0
     /\ \A k \in 0..Len(b) : h[k] >= 0
     /\ \A i \in 1..Len(b) :
          b[i] \in Closers =>
            \E J \in {{j \in 1..(i - 1) : b[j] \in Openers /\ h[j - 1] = h[i]}} :
               /\ J # {}
               /\ <<b[CHOOSE x \in J : \A y \in J : y <= x], b[i]>> \in BracketPairs

\* Every bracket is closed by its matching closer in properly nested order.
Balanced(s) == \E b \in {OnlyBrackets(s)} : WellNested(b)

\* The largest number of brackets open at once.
NestingDepth(s) ==
  CHOOSE d \in 0..Len(s) :
    \E h \in {Heights(OnlyBrackets(s))} :
       /\ \E k \in DOMAIN h : h[k] = d
       /\ \A k \in DOMAIN h : h[k] <= d

RemoveAt(s, p) == SubSeq(s, 1, p - 1) \o SubSeq(s, p + 1, Len(s))

\* The string is a balanced string with one closer inserted somewhere.
\* (Such a string has one closer more than it has openers.)
CloserInserted(s) ==
  /\ Cardinality({j \in 1..Len(s) : s[j] \in Closers})
       = Cardinality({j \in 1..Len(s) : s[j] \in Openers}) + 1
  /\ \E p \in 1..Len(s) : s[p] \in Closers /\ Balanced(RemoveAt(s, p))

ScannedString == bpc = "done" /\ ~bnull /\ bstr # <<>>

\* C3 (as claimed): for every non-empty string the result is false when the
\* brackets are balanced, whatever the nesting depth, and true otherwise;
\* a balanced string with one closer inserted gives true.
C3_BalancedAtAnyDepth ==
  ScannedString =>
    /\ bres = ~Balanced(bstr)
    /\ CloserInserted(bstr) => bres = TRUE

\* C3 (amended): for every non-empty string the result is false when the
\* brackets are balanced and nested at most StackSize (100) deep, and true
\* otherwise: when a bracket is unmatched or closed by the wrong kind, and
\* also when a balanced string nests deeper than the stack holds; a
\* balanced string with one closer inserted gives true.
C3_BalancedWithinStack ==
  ScannedString =>
    /\ bres = (~Balanced(bstr) \/ NestingDepth(bstr) > StackSize)
    /\ CloserInserted(bstr) => bres = TRUE

\* C3 witness: a balanced string that fills the stack exactly was scanned
\* and found balanced.
C3_FullStackBalanced ==
  /\ bpc = "done" /\ ~bnull /\ Len(bstr) >= 2 * StackSize
  /\ Balanced(bstr) /\ NestingDepth(bstr) = StackSize /\ bres = FALSE

\* C4: the result is false for a null input and for the empty string, and
\* for the empty string the scan stops at the terminator.
C4_NullAndEmptyFalse ==
  (bpc = "done" /\ (bnull \/ bstr = <<>>)) => (bres = FALSE /\ cpos <= Len(bstr))

-----------------------------------------------------------------------------
(***************************************************************************)
(* Properties of has_only_text_children_and_allowed_attrs (SpecLeaf).      *)
(***************************************************************************)

\* The whitelist accepts the attribute: its name is listed with a required
\* value that, when one is specified, equals the attribute's value.
Whitelisted(prop, attrs, contents) ==
  \E i \in 1..Len(attrs.items) :
    /\ attrs.items[i] = prop.name
    /\ \/ contents.null
       \/ contents.items[i] = NULL
       \/ contents.items[i] = prop.value

ValidLeaf(n, attrs, contents) ==
  /\ \/ n.props = <<>>
     \/ /\ ~attrs.null
        /\ \A k \in 1..Len(n.props) : Whitelisted(n.props[k], attrs, contents)
  /\ \A k \in 1..Len(n.children) : n.children[k] = "text"

\* C5: the function returns true exactly when the node has no attributes
\* or a whitelist was supplied that accepts every attribute, and every
\* child of the node is a Text node.
C5_TrueExactlyForValidLeaf ==
  (lpc = "done" /\ ~lnode.null) =>
    (lres = (IF ValidLeaf(lnode, lattrs, lcontents) THEN "TRUE" ELSE "FALSE"))

\* C6: when the value sequence is supplied and holds a null entry at the
\* index of an attribute name, an attribute of that name is accepted
\* whatever its value, and the function completes normally.
C6_NullEntryAcceptsAnyValue ==
  (/\ lpc = "done" /\ ~lnode.null /\ lnode.type = "element"
   /\ ~lattrs.null /\ ~lcontents.null
   /\ Len(lnode.props) = 1
   /\ \E i \in 1..Len(lattrs.items) :
        /\ lattrs.items[i] = lnode.props[1].name
        /\ lcontents.items[i] = NULL
        /\ \A j \in 1..(i - 1) : lattrs.items[j] # lnode.props[1].name
   /\ \A k \in 1..Len(lnode.children) : lnode.children[k] = "text")
  => lres = "TRUE"

-----------------------------------------------------------------------------
(***************************************************************************)
(* Properties of unlink_leaf_node_with_attr (SpecExtract).                 *)
(***************************************************************************)

\* C7: the document changes only by the detaching of the returned node:
\* with no match or a rejected node the tree is as before; the node chosen
\* is the first match in document order, and when it is returned it alone
\* is detached, every other node keeping its parent.
C7_OnlyReturnedNodeDetached ==
  xpc \in {"done", "crashed"} =>
    /\ xret = NoNode => parent = doc0.par
    /\ matches = {} => xret = NoNode
    /\ xchosen # NoNode => (xchosen \in matches /\ \A m \in matches : xchosen <= m)
    /\ xret # NoNode =>
         /\ xret = xchosen
         /\ \A i \in 1..doc0.n :
              parent[i] = (IF i = xret THEN NoParent ELSE doc0.par[i])

\* C7 witness: several nodes matched, and the first was detached and
\* returned while a later match still has a sibling's place below the same
\* parent.
C7_FirstOfSeveralDetached ==
  /\ xpc = "done" /\ xret # NoNode /\ Cardinality(matches) >= 2
  /\ \E m \in matches : m > xret /\ doc0.par[m] = doc0.par[xret] /\ parent[m] = doc0.par[m]

\* The failures of the evaluation the caller is to tell apart.
FailureKinds == {"malformed", "no_nodeset", "zero_nodes"}

-----------------------------------------------------------------------------
(***************************************************************************)
(* Properties of entry_orths_to_string (SpecJoin).                         *)
(***************************************************************************)

RECURSIVE Flatten(_)
Flatten(ss) == IF ss = <<>> THEN <<>> ELSE Head(ss) \o Flatten(Tail(ss))

\* The text of a node as joined: "(null)" for an absent content.
Rendered(c) == IF c.null THEN NullText ELSE c.bytes

\* The joined text: the nodes before the first non-empty text add nothing,
\* every node after it adds ", " and its text.
JoinedText(contents) ==
  IF \A i \in 1..Len(contents) : Rendered(contents[i]) = <<>> THEN <<>>
  ELSE LET k == CHOOSE i \in 1..Len(contents) :
                  /\ Rendered(contents[i]) # <<>>
                  /\ \A j \in 1..(i - 1) : Rendered(contents[j]) = <<>>
       IN Flatten([i \in 1..(Len(contents) - k + 1) |->
                     IF i = 1 THEN Rendered(contents[k])
                     ELSE Separator \o Rendered(contents[k + i - 1])])

\* The joined text as claimed: "(null)" for an empty or absent content,
\* ", " between every two consecutive nodes.
ClaimedRendered(c) == IF c.null \/ c.bytes = <<>> THEN NullText ELSE c.bytes
ClaimedText(contents) ==
  Flatten([i \in 1..Len(contents) |->
             IF i = 1 THEN ClaimedRendered(contents[1])
             ELSE Separator \o ClaimedRendered(contents[i])])

CharCount(b) == Len(SelectSeq(b, LAMBDA x : x # "C"))

RECURSIVE EndsOnBoundary(_, _)
EndsOnBoundary(b, p) ==
  IF p = Len(b) THEN TRUE
  ELSE IF p > Len(b) THEN FALSE
  ELSE EndsOnBoundary(b, p + Utf8Skip(b[p + 1]))

IsPrefix(a, b) == Len(a) <= Len(b) /\ SubSeq(b, 1, Len(a)) = a

\* C9: the output is the joined text truncated to len bytes: all of it
\* when it fits with its terminator, otherwise a prefix of at most len
\* bytes with the terminator; it ends on a character boundary, and nothing
\* is read or written outside the len-byte buffers.
C9_TruncatedToMaxBytes ==
  (jpc = "done" /\ Len(jcontents) > 0) =>
    /\ Len(JoinedText(jcontents)) + 1 <= jlen => jout = JoinedText(jcontents)
    /\ IsPrefix(jout, JoinedText(jcontents))
    /\ Len(jout) + 1 <= jlen
    /\ EndsOnBoundary(jout, 0)
    /\ jwrite < jlen
    /\ ~jpast

-----------------------------------------------------------------------------
(***************************************************************************)
(* Properties of value2index / index2value (SpecIndex).                    *)
(***************************************************************************)

\* C11: for an array of n entries, index2value returns the value of entry
\* index when 0 <= index < n and NULL for every other index, negative ones
\* included; fed the -1 value2index gives for an unknown value, it returns
\* NULL.
C11_NullOutsideBounds ==
  (ipc = "done" /\ ~inull) =>
    /\ iret = (IF 0 <= iindex /\ iindex < Len(iarr)
                 THEN Str(iarr[iindex + 1].value) ELSE NullValue)
    /\ (ifed /\ iv2i = Unknown) => iret.null

-----------------------------------------------------------------------------
(***************************************************************************)
(* Properties of Values2GSList (SpecList).                                 *)
(***************************************************************************)

\* C12: once an element has been written, the size allocated for it is at
\* least len(label) + len(value) + 2, what was written is label, TAB,
\* value and the terminator, and no write index reached or passed the
\* allocated size, for all lengths including 0.
C12_ElementWithinAllocation ==
  gpc \in {"prepend", "crashed"} =>
    /\ gsize >= Len(garr[gk + 1].label) + Len(garr[gk + 1].value) + 2
    /\ gdata = Shifted(0, garr[gk + 1].label \o <<TAB>> \o garr[gk + 1].value
                          \o <<NUL>>)
    /\ \A w \in DOMAIN gdata : w < gsize
    /\ gpc # "crashed"

====
